---- MODULE Spec2Model ----
(***************************************************************************)
(* The automated message system of the messaging backend: the planner      *)
(* (createAutoMessages), the scanner (queueReadyMessages), the RabbitMQ     *)
(* queue wrapper (publishToQueue / consumeFromQueue) and the consumer       *)
(* (processAutoMessage), with the AutoMessage, Message and Conversation     *)
(* collections they read and write.                                         *)
(*                                                                         *)
(* Every await of the source is a step boundary: other runs interleave      *)
(* there.  A mongoose save() writes the paths the document has modified     *)
(* ($set), never the whole document.                                        *)
(***************************************************************************)
EXTENDS Integers, Sequences, FiniteSets, TLC

VARIABLES
    \* ---- planner (cronService.js createAutoMessages) ----
    activeUsers,    \* result of User.find({isActive: true}): sequence of user ids
    shuffledUsers,  \* the copy shuffleArray permutes
    shuffleI,       \* shuffleArray's loop index i (0-based)
    plannerPc,      \* position of the planner run
    inserted,       \* the documents AutoMessage.insertMany stored in this run
    plannerResult,  \* "none" | "noop" | "ok" | "error"
    \* ---- delivery pipeline ----
    now,            \* the clock, in ticks
    autoMessages,   \* the AutoMessage collection: record id -> document
    scanners,       \* the runs of queueReadyMessages in progress: slot -> run state
    queue,          \* message_sending_queue: every message ever published, with the
                    \* state of its delivery and of the handler run processing it
    messages,       \* the Message collection, in insertion order
    conversations,  \* the Conversation collection, in insertion order
    storeUp,        \* whether MongoDB answers: once it is down every store call rejects
    faults,         \* transient failures of store / broker / redis calls still to come
    \* ---- history (read by the properties only) ----
    promotions,     \* record id -> markAsQueued saves that were applied
    failStreak,     \* record id -> handler runs that failed since the last success
    notified,       \* record id -> message_received events emitted
    \* ---- POST /api/messages/send ----
    requests,       \* the requests received, in order of arrival, with the position
                    \* of the route handler serving each
    \* ---- retention sweep (cronService.js cleanupOldMessages) ----
    lastSweep,      \* the clock at the last run of cleanupOldMessages, NoDate if none
    \* ---- presence (socket handler, redis set online_users) ----
    sockets,        \* the sockets that authenticated, in order of connection, with the
                    \* position of the connection / disconnect handler of each
    onlineUsers     \* the redis set online_users

plannerVars == <<activeUsers, shuffledUsers, shuffleI, plannerPc, inserted, plannerResult>>

storeVars == <<autoMessages, messages, conversations>>

historyVars == <<promotions, failStreak, notified>>

faultVars == <<storeUp, faults>>

pipelineVars == <<now, storeVars, scanners, queue, faultVars, historyVars>>

routeVars == <<requests>>

sweepVars == <<lastSweep>>

presenceVars == <<sockets, onlineUsers>>

\* What the planner leaves alone, and what the delivery pipeline leaves alone.
notPlannerVars == <<pipelineVars, routeVars, sweepVars, presenceVars>>

notPipelineVars == <<plannerVars, routeVars, sweepVars, presenceVars>>

vars == <<plannerVars, pipelineVars, routeVars, sweepVars, presenceVars>>

--------------------------------------------------------------------------
(* Bounds of the model *)

MaxUsers == 5          \* active users a planner run sees: 0..MaxUsers
NumRecords == 1        \* scheduling records in the AutoMessage collection
MaxScanners == 2       \* runs of queueReadyMessages that may overlap
MaxQueue == 2          \* messages published to the queue in one behaviour
MaxDeliveries == 3     \* deliveries of one queue message that are counted
MaxFaults == 2         \* transient failures of store / broker calls in one behaviour
MaxTime == 2           \* the clock stops advancing here
MaxAgeDays == 32       \* days the retention sweep is followed for
MaxRequests == 2       \* POST /send requests in one behaviour
MaxConversations == 2  \* conversations in the store before the first request
BatchRecords == 2      \* records due at once when one run goes through several
MaxSockets == 3        \* sockets that connect in one behaviour

--------------------------------------------------------------------------
(* Program constants *)

NumTemplates == 15     \* AUTO_MESSAGE_TEMPLATES.length
MaxRetries == 3        \* retryCount: { $lt: 3 }
QueueTTL == 86400000   \* x-message-ttl, in ms
NoDate == 0            \* an unset Date field (queuedAt, sentAt)
NoId == 0              \* an unset ObjectId (messageId, lastMessage)
RetentionDays == 30    \* thirtyDaysAgo.setDate(thirtyDaysAgo.getDate() - 30)
PlannerHour == 2       \* cron '0 2 * * *': createAutoMessages
SweepHour == 3         \* cron '0 3 * * *': cleanupOldMessages

\* Outcomes of Math.random() the model enumerates for content and send date:
\* the two ends of each range.
TemplateDraws == {0, NumTemplates - 1}   \* floor(random * 15)
HourDraws == {1, 24}                     \* floor(random * 24) + 1
MinuteDraws == {0, 59}                   \* floor(random * 60)

--------------------------------------------------------------------------
(* Helpers *)

SeqToSet(s) == {s[k] : k \in 1..Len(s)}

Swap(s, a, b) == [s EXCEPT ![a] = s[b], ![b] = s[a]]

\* ceil(n / 2)
CeilHalf(n) == (n + 1) \div 2

\* A slot of the scanner with no run in progress.
IdleScanner == [pc |-> "idle", todo |-> << >>, dirty |-> FALSE, queuedAt |-> NoDate]

\* Nobody has connected a socket.
NoSockets ==
    /\ sockets = << >>
    /\ onlineUsers = {}

\* The pipeline before any record exists.
PipelineEmpty ==
    /\ now = 1
    /\ autoMessages = << >>
    /\ scanners = [s \in 1..MaxScanners |-> IdleScanner]
    /\ queue = << >>
    /\ messages = << >>
    /\ conversations = << >>
    /\ storeUp = TRUE
    /\ faults = 0
    /\ promotions = << >>
    /\ failStreak = << >>
    /\ notified = << >>
    /\ requests = << >>
    /\ lastSweep = NoDate
    /\ NoSockets

--------------------------------------------------------------------------
(* Planner: createAutoMessages *)

\* A getRandomSendDate whose hours are drawn from 0..23: the + 1 is forgotten.
SendDateHoursFromZero(hoursToAdd, minutesToAdd) ==
    (hoursToAdd - 1) * 60 + minutesToAdd

\* getRandomSendDate: offset from now in minutes.
getRandomSendDate(hoursToAdd, minutesToAdd) == hoursToAdd * 60 + minutesToAdd

\* A pairs loop that advances by one instead of two: (s[0],s[1]), (s[1],s[2]), ...
LoopPairsStrideOne(s) ==
    [k \in 1..(Len(s) \div 2) |-> [sender |-> s[k], receiver |-> s[k + 1]]]

\* The pairs loop: for (i = 0; i < length - 1; i += 2) push (s[i], s[i+1]);
\* indices here are 1-based, so i ranges over 1, 3, 5, ... while i < length.
LoopPairs(s) ==
    [k \in 1..(Len(s) \div 2) |-> [sender |-> s[2 * k - 1], receiver |-> s[2 * k]]]

\* A wrap-around pair that goes to the second user of the shuffled list.
WrapPairToSecond(s) ==
    IF Len(s) % 2 # 0
    THEN << [sender |-> s[Len(s)], receiver |-> s[2]] >>
    ELSE << >>

\* if (length % 2 !== 0) push (s[length - 1], s[0])
WrapPair(s) ==
    IF Len(s) % 2 # 0
    THEN << [sender |-> s[Len(s)], receiver |-> s[1]] >>
    ELSE << >>

\* A planner that forgets the wrap-around pair of an odd user set.
MakePairsNoWrap(s) == LoopPairs(s)

MakePairs(s) == LoopPairs(s) \o WrapPair(s)

\* The random draws of one pair: getRandomMessage's index and getRandomSendDate.
PairDraws ==
    {[content |-> c, sendOffset |-> getRandomSendDate(h, m)] :
        c \in TemplateDraws, h \in HourDraws, m \in MinuteDraws}

\* All the batches pairs.map(...) can build: per pair one content and one send date.
Batches(pairs) ==
    { [k \in 1..Len(pairs) |->
          [sender |-> pairs[k].sender, receiver |-> pairs[k].receiver,
           content |-> d[k].content, sendOffset |-> d[k].sendOffset]] :
        d \in [1..Len(pairs) -> PairDraws] }

\* A document of the AutoMessage collection as insertMany stores it: the schema
\* defaults for every field the planner does not set, and the createdAt of the
\* schema's timestamps option.
NewAutoMessage(sender, receiver, content, sendDate, createdAt) ==
    [sender |-> sender, receiver |-> receiver, content |-> content, sendDate |-> sendDate,
     createdAt |-> createdAt,
     isQueued |-> FALSE, queuedAt |-> NoDate,
     isSent |-> FALSE, sentAt |-> NoDate,
     messageId |-> NoId, error |-> "", retryCount |-> 0]

\* An insertMany that replaces the collection by the batch.
InsertManyReplaces(store, batch, t) ==
    [k \in 1..Len(batch) |->
        NewAutoMessage(batch[k].sender, batch[k].receiver, batch[k].content,
                       t + batch[k].sendOffset, t)]

\* AutoMessage.insertMany(batch) at time t on the collection store: one new document
\* per element of the batch, after the documents the collection holds.
InsertMany(store, batch, t) ==
    store \o [k \in 1..Len(batch) |->
                NewAutoMessage(batch[k].sender, batch[k].receiver, batch[k].content,
                               t + batch[k].sendOffset, t)]

\* The collection when a run of the planner starts: empty, or holding a record
\* of the run of the night before, which the scanner has promoted since.
EarlierRecords ==
    {<< >>,
     <<[NewAutoMessage(1, 2, 1, 1, 1) EXCEPT !.isQueued = TRUE, !.queuedAt = 1]>>}

\* The clock counts minutes here.
PlannerInit ==
    /\ activeUsers \in {[k \in 1..n |-> k] : n \in 0..MaxUsers}
    /\ shuffledUsers = << >>
    /\ shuffleI = 0
    /\ plannerPc = "find"
    /\ inserted = << >>
    /\ plannerResult = "none"
    /\ now = 1
    /\ autoMessages \in EarlierRecords
    /\ scanners = [s \in 1..MaxScanners |-> IdleScanner]
    /\ queue = << >>
    /\ messages = << >>
    /\ conversations = << >>
    /\ storeUp = TRUE
    /\ faults = 0
    /\ promotions = << >>
    /\ failStreak = << >>
    /\ notified = << >>
    /\ requests = << >>
    /\ lastSweep = NoDate
    /\ NoSockets

\* User.find resolved: fewer than 2 users is a no-op, otherwise shuffleArray starts
\* on a copy, i = length - 1.
PlannerFind ==
    /\ plannerPc = "find"
    /\ IF Len(activeUsers) < 2
       THEN /\ plannerPc' = "done"
            /\ plannerResult' = "noop"
            /\ UNCHANGED <<shuffledUsers, shuffleI>>
       ELSE /\ plannerPc' = "shuffle"
            /\ shuffledUsers' = activeUsers
            /\ shuffleI' = Len(activeUsers) - 1
            /\ UNCHANGED plannerResult
    /\ UNCHANGED <<activeUsers, inserted>>
    /\ UNCHANGED notPlannerVars

\* User.find rejected: the outer catch logs and the run ends.
PlannerFindFails ==
    /\ plannerPc = "find"
    /\ plannerPc' = "done"
    /\ plannerResult' = "error"
    /\ UNCHANGED <<activeUsers, shuffledUsers, shuffleI, inserted>>
    /\ UNCHANGED notPlannerVars

\* One iteration of shuffleArray: j = floor(random * (i + 1)), swap i and j.
ShuffleStep ==
    /\ plannerPc = "shuffle"
    /\ shuffleI > 0
    /\ \E j \in 0..shuffleI :
         shuffledUsers' = Swap(shuffledUsers, shuffleI + 1, j + 1)
    /\ shuffleI' = shuffleI - 1
    /\ UNCHANGED <<activeUsers, plannerPc, inserted, plannerResult>>
    /\ UNCHANGED notPlannerVars

\* The loop of shuffleArray is over: pairs are built and the batch is inserted.
PlannerInsert ==
    /\ plannerPc = "shuffle"
    /\ shuffleI = 0
    /\ \E b \in Batches(MakePairs(shuffledUsers)) :
         /\ inserted' = b
         /\ autoMessages' = InsertMany(autoMessages, b, now)
    /\ plannerPc' = "stats"
    /\ plannerResult' = "ok"
    /\ UNCHANGED <<activeUsers, shuffledUsers, shuffleI>>
    /\ UNCHANGED <<now, messages, conversations, scanners, queue, faultVars, historyVars>>
    /\ UNCHANGED <<routeVars, sweepVars, presenceVars>>

\* AutoMessage.getStatistics() resolved or rejected: either way the run only logs;
\* the inserted documents stay.
PlannerStats ==
    /\ plannerPc = "stats"
    /\ plannerPc' = "done"
    /\ UNCHANGED <<activeUsers, shuffledUsers, shuffleI, inserted, plannerResult>>
    /\ UNCHANGED notPlannerVars

\* insertMany rejected (ordered insert): the documents before the failing one are
\* stored, the outer catch logs and the run ends.
PlannerInsertFails ==
    /\ plannerPc = "shuffle"
    /\ shuffleI = 0
    /\ \E b \in Batches(MakePairs(shuffledUsers)) :
         \E k \in 0..(Len(b) - 1) :
            /\ inserted' = SubSeq(b, 1, k)
            /\ autoMessages' = InsertMany(autoMessages, SubSeq(b, 1, k), now)
    /\ plannerPc' = "done"
    /\ plannerResult' = "error"
    /\ UNCHANGED <<activeUsers, shuffledUsers, shuffleI>>
    /\ UNCHANGED <<now, messages, conversations, scanners, queue, faultVars, historyVars>>
    /\ UNCHANGED <<routeVars, sweepVars, presenceVars>>

PlannerNext ==
    \/ PlannerFind
    \/ PlannerFindFails
    \/ ShuffleStep
    \/ PlannerInsert
    \/ PlannerInsertFails
    \/ PlannerStats

SpecPlanner == PlannerInit /\ [][PlannerNext]_vars

--------------------------------------------------------------------------
(* The collections *)

RecordIds == 1..NumRecords

\* The (sender, receiver) pairs of the records in the store: the first record is
\* 1 -> 2, the others go the other way or to a third user.
InitPairs(r) == IF r = 1 THEN {<<1, 2>>} ELSE {<<2, 1>>, <<3, 1>>}

\* A query that gives a record one attempt only: retryCount: { $lt: 1 }.
ReadyForQueuingFirstTryOnly(d, t) ==
    /\ d.sendDate <= t
    /\ d.isQueued = FALSE
    /\ d.isSent = FALSE
    /\ d.retryCount < 1

\* A query that looks at the send date and the retry count only.
ReadyForQueuingAnyState(d, t) ==
    /\ d.sendDate <= t
    /\ d.retryCount < MaxRetries

\* The query of getMessagesForQueuing on document d at time t.
ReadyForQueuing(d, t) ==
    /\ d.sendDate <= t
    /\ d.isQueued = FALSE
    /\ d.isSent = FALSE
    /\ d.retryCount < MaxRetries

\* The ids getMessagesForQueuing returns now.
ReadyIds == {r \in DOMAIN autoMessages : ReadyForQueuing(autoMessages[r], now)}

RECURSIVE SetToSeq(_)
\* The ids of a find() result, in ascending order.
SetToSeq(S) ==
    IF S = {} THEN << >>
    ELSE LET m == CHOOSE x \in S : \A y \in S : x <= y
         IN  <<m>> \o SetToSeq(S \ {m})

\* A findOne that matches the participants array as given: [a, b] in this order.
FindConversationOrdered(a, b) ==
    LET hits == {c \in 1..Len(conversations) : conversations[c].participants = <<a, b>>}
    IN  IF hits = {} THEN NoId ELSE CHOOSE c \in hits : \A d \in hits : c <= d

\* findOne({participants: {$all: [a, b]}, isActive: true}): the first conversation
\* holding both users, 0 when there is none.
FindConversation(a, b) ==
    LET hits == {c \in 1..Len(conversations) :
                    {a, b} \subseteq SeqToSet(conversations[c].participants)}
    IN  IF hits = {} THEN NoId ELSE CHOOSE c \in hits : \A d \in hits : c <= d

--------------------------------------------------------------------------
(* Initial states *)

PlannerDone ==
    /\ activeUsers = << >>
    /\ shuffledUsers = << >>
    /\ shuffleI = 0
    /\ plannerPc = "done"
    /\ inserted = << >>
    /\ plannerResult = "none"

\* The store after the planner has run, at time t with a budget of transient
\* failures: every record Pending and due at time MaxTime, nothing queued.
PipelineInit(t, budget) ==
    /\ PlannerDone
    /\ now = t
    /\ \E pairs \in [RecordIds -> {<<1, 2>>, <<2, 1>>, <<3, 1>>}] :
         /\ \A r \in RecordIds : pairs[r] \in InitPairs(r)
         /\ autoMessages = [r \in RecordIds |->
                               NewAutoMessage(pairs[r][1], pairs[r][2], r, MaxTime, 1)]
    /\ scanners = [s \in 1..MaxScanners |-> IdleScanner]
    /\ queue = << >>
    /\ messages = << >>
    /\ conversations = << >>
    /\ storeUp = TRUE
    /\ faults = budget
    /\ promotions = [r \in RecordIds |-> 0]
    /\ failStreak = [r \in RecordIds |-> 0]
    /\ notified = [r \in RecordIds |-> 0]
    /\ requests = << >>
    /\ lastSweep = NoDate
    /\ NoSockets

\* No record is due yet.
Init == PipelineInit(1, MaxFaults)

--------------------------------------------------------------------------
(* The clock *)

Min(a, b) == IF a < b THEN a ELSE b

\* Time passes.
Tick ==
    /\ now < MaxTime
    /\ now' = now + 1
    /\ UNCHANGED <<storeVars, scanners, queue, faultVars, historyVars>>
    /\ UNCHANGED notPipelineVars

--------------------------------------------------------------------------
(* Failures *)

\* MongoDB stops answering: from now on every store call rejects.
StoreGoesDown ==
    /\ storeUp
    /\ storeUp' = FALSE
    /\ UNCHANGED <<now, storeVars, scanners, queue, faults, historyVars>>
    /\ UNCHANGED notPipelineVars

\* A store call rejects: the store is down, or the call is one of the transient
\* failures of the behaviour.
StoreCallFails ==
    \/ ~storeUp /\ UNCHANGED faultVars
    \/ storeUp /\ faults > 0 /\ faults' = faults - 1 /\ UNCHANGED storeUp

--------------------------------------------------------------------------
(* Scanner: queueReadyMessages *)

\* The next record of the for loop, or the end of the run.
ScannerAdvance(run) ==
    IF Len(run.todo) <= 1
    THEN IdleScanner
    ELSE [pc |-> "publish", todo |-> Tail(run.todo), dirty |-> FALSE, queuedAt |-> NoDate]

\* A queueReadyMessages without its outer try / catch: the exception leaves the
\* function and the run never returns.
OuterCatchRethrows(run) == [run EXCEPT !.pc = "thrown"]

\* The outer catch of queueReadyMessages: the exception is logged, the run returns
\* and nothing is thrown to the cron.
OuterCatch(run) == IdleScanner

\* getMessagesForQueuing rejected: the outer catch ends the run before any record
\* is looked at.
StartScanFails(s) ==
    /\ scanners[s].pc = "idle"
    /\ StoreCallFails
    /\ scanners' = [scanners EXCEPT ![s] = OuterCatch(@)]
    /\ UNCHANGED <<now, storeVars, queue, historyVars>>
    /\ UNCHANGED notPipelineVars

\* getMessagesForQueuing resolved: the run holds its own copy of every document the
\* query matched.  An empty result ends the run.
StartScan(s) ==
    /\ storeUp
    /\ scanners[s].pc = "idle"
    /\ ReadyIds # {}
    /\ scanners' = [scanners EXCEPT ![s] =
          [pc |-> "publish",
           todo |-> [k \in 1..Cardinality(ReadyIds) |->
                        [id |-> SetToSeq(ReadyIds)[k],
                         retryCount |-> autoMessages[SetToSeq(ReadyIds)[k]].retryCount]],
           dirty |-> FALSE, queuedAt |-> NoDate]]
    /\ UNCHANGED <<now, storeVars, queue, faultVars, historyVars>>
    /\ UNCHANGED notPipelineVars

\* A payload that leaves the content of the record out.
QueueMessageWithoutContent(r) ==
    [autoMessageId |-> r,
     senderId |-> autoMessages[r].sender,
     receiverId |-> autoMessages[r].receiver,
     content |-> NoId,
     parses |-> TRUE,
     status |-> "ready", ttlLeft |-> QueueTTL, deliveries |-> 0,
     pc |-> "none", conv |-> NoId, msg |-> NoId, retryRead |-> 0, err |-> "",
     outcome |-> "none", sentOnArrival |-> FALSE]

\* The payload publishToQueue serialises for record r, as a fresh queue message.
\* parses says that the body is what JSON.stringify made of the payload.
\* sentOnArrival is not program state: it records whether the record was Sent
\* when the handler run in progress was handed the message.
QueueMessage(r) ==
    [autoMessageId |-> r,
     senderId |-> autoMessages[r].sender,
     receiverId |-> autoMessages[r].receiver,
     content |-> autoMessages[r].content,
     parses |-> TRUE,
     status |-> "ready", ttlLeft |-> QueueTTL, deliveries |-> 0,
     pc |-> "none", conv |-> NoId, msg |-> NoId, retryRead |-> 0, err |-> "",
     outcome |-> "none", sentOnArrival |-> FALSE]

\* publishToQueue resolved: the payload is in the queue, markAsQueued is next.
ScanPublish(s) ==
    /\ scanners[s].pc = "publish"
    /\ Len(queue) < MaxQueue
    /\ queue' = Append(queue, QueueMessage(Head(scanners[s].todo).id))
    /\ scanners' = [scanners EXCEPT ![s].pc = "mark"]
    /\ UNCHANGED <<now, storeVars, faultVars, historyVars>>
    /\ UNCHANGED notPipelineVars

\* publishToQueue threw: the inner catch runs incrementRetry on the run's copy.
ScanPublishFails(s) ==
    /\ scanners[s].pc = "publish"
    /\ faults > 0
    /\ faults' = faults - 1
    /\ scanners' = [scanners EXCEPT ![s].pc = "incr"]
    /\ UNCHANGED <<now, storeVars, queue, storeUp, historyVars>>
    /\ UNCHANGED notPipelineVars

\* markAsQueued: isQueued = true, queuedAt = new Date(), save() resolved.  The save
\* is unconditional: it does not look at the stored document.
ScanMark(s) ==
    /\ storeUp
    /\ scanners[s].pc = "mark"
    /\ LET r == Head(scanners[s].todo).id IN
         /\ autoMessages' = [autoMessages EXCEPT ![r].isQueued = TRUE, ![r].queuedAt = now]
         /\ promotions' = [promotions EXCEPT ![r] = @ + 1]
    /\ scanners' = [scanners EXCEPT ![s] = ScannerAdvance(scanners[s])]
    /\ UNCHANGED <<now, messages, conversations, queue, faultVars, failStreak, notified>>
    /\ UNCHANGED notPipelineVars

\* markAsQueued's save() rejected: the copy keeps isQueued and queuedAt modified, and
\* the inner catch runs incrementRetry on it.
ScanMarkFails(s) ==
    /\ scanners[s].pc = "mark"
    /\ StoreCallFails
    /\ scanners' = [scanners EXCEPT ![s].pc = "incr", ![s].dirty = TRUE, ![s].queuedAt = now]
    /\ UNCHANGED <<now, storeVars, queue, historyVars>>
    /\ UNCHANGED notPipelineVars

\* incrementRetry on the run's copy: retryCount is the copy's value plus one, and
\* the save() writes every path the copy has modified.
ScanIncrementRetry(s) ==
    /\ storeUp
    /\ scanners[s].pc = "incr"
    /\ LET r == Head(scanners[s].todo).id
           rc == Head(scanners[s].todo).retryCount + 1
       IN
         /\ autoMessages' = [autoMessages EXCEPT
               ![r].retryCount = rc,
               ![r].error = "queue",
               ![r].isQueued = IF scanners[s].dirty THEN TRUE ELSE @,
               ![r].queuedAt = IF scanners[s].dirty THEN scanners[s].queuedAt ELSE @]
         /\ promotions' = [promotions EXCEPT ![r] = IF scanners[s].dirty THEN @ + 1 ELSE @]
    /\ scanners' = [scanners EXCEPT ![s] = ScannerAdvance(scanners[s])]
    /\ UNCHANGED <<now, messages, conversations, queue, faultVars, failStreak, notified>>
    /\ UNCHANGED notPipelineVars

\* incrementRetry's save() rejected inside the inner catch: the exception leaves the
\* for loop, the outer catch logs it and the run ends.
ScanIncrementRetryFails(s) ==
    /\ scanners[s].pc = "incr"
    /\ StoreCallFails
    /\ scanners' = [scanners EXCEPT ![s] = OuterCatch(@)]
    /\ UNCHANGED <<now, storeVars, queue, historyVars>>
    /\ UNCHANGED notPipelineVars

--------------------------------------------------------------------------
(* Queue: consumeFromQueue, and the consumer: processAutoMessage *)

\* The handler run of queue message k fails at the step named err: the catch of
\* processAutoMessage starts with AutoMessage.findById.
HandlerThrows(k, err) ==
    [queue EXCEPT ![k].pc = "catchFind", ![k].err = err]

\* The end of a handler run: the locals of the run are gone.  outcome is not program
\* state: it records how the last run of the handler on the message ended.
EndRun(m, status, outcome) ==
    [m EXCEPT !.status = status, !.pc = "none", !.conv = NoId, !.msg = NoId,
              !.retryRead = 0, !.err = "", !.outcome = outcome,
              !.sentOnArrival = FALSE]

\* A callback that nacks without requeue when the handler threw: the broker
\* discards the message.
SettleDropsOnThrow(k, returned) ==
    [queue EXCEPT ![k] = IF returned
                         THEN EndRun(@, "acked", "returned")
                         ELSE EndRun(@, "dropped", "threw")]

\* A callback that acknowledges the message however the handler ended.
SettleAlwaysAck(k, returned) ==
    [queue EXCEPT ![k] = EndRun(@, "acked", IF returned THEN "returned" ELSE "threw")]

\* The callback of consumeFromQueue once the handler has ended: channel.ack(msg) when
\* it returned, channel.nack(msg, false, true) when it threw; the nack requeues
\* the message whatever the number of deliveries it has had.
Settle(k, returned) ==
    [queue EXCEPT ![k] = IF returned
                         THEN EndRun(@, "acked", "returned")
                         ELSE EndRun(@, "ready", "threw")]

\* A queue declared without x-message-ttl: no message ever expires.
ExpiredNever(m) == FALSE

\* A broker where a requeue clears the expiry: only a message that was never
\* delivered expires.
ExpiredOnlyUndelivered(m) == m.ttlLeft = 0 /\ m.deliveries = 0

\* Whether the TTL of queue message m has run out.
Expired(m) == m.ttlLeft = 0

\* x-message-ttl milliseconds have passed since message k was published; a requeue
\* does not restart the TTL.
TTLElapses(k) ==
    /\ k \in DOMAIN queue
    /\ queue[k].status \in {"ready", "unacked"}
    /\ queue[k].ttlLeft > 0
    /\ queue' = [queue EXCEPT ![k].ttlLeft = 0]
    /\ UNCHANGED <<now, storeVars, scanners, faultVars, historyVars>>
    /\ UNCHANGED notPipelineVars

\* The broker hands message k to the consumer callback, JSON.parse returns the
\* payload and processAutoMessage starts.  The channel sets no prefetch, so a
\* delivery does not wait for the handler of an earlier one.
Deliver(k) ==
    /\ k \in DOMAIN queue
    /\ queue[k].status = "ready"
    /\ ~Expired(queue[k])
    /\ queue[k].parses
    /\ queue' = [queue EXCEPT ![k].status = "unacked",
                              ![k].deliveries = Min(@ + 1, MaxDeliveries),
                              ![k].pc = "findConv",
                              ![k].outcome = "running",
                              ![k].sentOnArrival = autoMessages[queue[k].autoMessageId].isSent]
    /\ UNCHANGED <<now, storeVars, scanners, faultVars, historyVars>>
    /\ UNCHANGED notPipelineVars

\* The broker hands message k to the consumer callback and JSON.parse throws on
\* its body: processAutoMessage is not called, the catch of the callback nacks the
\* message with requeue.
DeliverUnparsable(k) ==
    /\ k \in DOMAIN queue
    /\ queue[k].status = "ready"
    /\ ~Expired(queue[k])
    /\ ~queue[k].parses
    /\ queue' = [Settle(k, FALSE) EXCEPT ![k].deliveries = Min(@ + 1, MaxDeliveries)]
    /\ UNCHANGED <<now, storeVars, scanners, faultVars, historyVars>>
    /\ UNCHANGED notPipelineVars

\* The broker drops a message whose TTL has run out instead of delivering it.
DropExpired(k) ==
    /\ k \in DOMAIN queue
    /\ queue[k].status = "ready"
    /\ Expired(queue[k])
    /\ queue' = [queue EXCEPT ![k].status = "expired"]
    /\ UNCHANGED <<now, storeVars, scanners, faultVars, historyVars>>
    /\ UNCHANGED notPipelineVars

\* findOrCreateConversation, the findOne: an existing conversation is returned,
\* otherwise create is next.
HFindConversation(k) ==
    /\ storeUp
    /\ k \in DOMAIN queue
    /\ queue[k].pc = "findConv"
    /\ LET c == FindConversation(queue[k].senderId, queue[k].receiverId) IN
         queue' = IF c = NoId
                  THEN [queue EXCEPT ![k].pc = "createConv"]
                  ELSE [queue EXCEPT ![k].pc = "saveMessage", ![k].conv = c]
    /\ UNCHANGED <<now, storeVars, scanners, faultVars, historyVars>>
    /\ UNCHANGED notPipelineVars

HFindConversationFails(k) ==
    /\ k \in DOMAIN queue
    /\ queue[k].pc = "findConv"
    /\ StoreCallFails
    /\ queue' = HandlerThrows(k, "delivery")
    /\ UNCHANGED <<now, storeVars, scanners, historyVars>>
    /\ UNCHANGED notPipelineVars

\* findOrCreateConversation, the create (and the findById that re-reads it): a new
\* conversation of the two users is inserted; nothing checks for one inserted since
\* the findOne.
HCreateConversation(k) ==
    /\ storeUp
    /\ k \in DOMAIN queue
    /\ queue[k].pc = "createConv"
    /\ conversations' = Append(conversations,
          [participants |-> <<queue[k].senderId, queue[k].receiverId>>,
           lastMessage |-> NoId])
    /\ queue' = [queue EXCEPT ![k].pc = "saveMessage", ![k].conv = Len(conversations) + 1]
    /\ UNCHANGED <<now, autoMessages, messages, scanners, faultVars, historyVars>>
    /\ UNCHANGED notPipelineVars

\* The findOne found nothing and create rejected: nothing is inserted.
HCreateConversationFails(k) ==
    /\ k \in DOMAIN queue
    /\ queue[k].pc = "createConv"
    /\ StoreCallFails
    /\ queue' = HandlerThrows(k, "delivery")
    /\ UNCHANGED <<now, storeVars, scanners, historyVars>>
    /\ UNCHANGED notPipelineVars

\* The messageType of a Message built without one: the default of the schema.
DefaultMessageType == "text"

\* A handler that builds the Message without a messageType: the schema default
\* is stored.
ConsumerMessageUntyped(m) ==
    [sender |-> m.senderId, receiver |-> m.receiverId,
     conversation |-> m.conv, content |-> m.content,
     messageType |-> DefaultMessageType, from |-> m.autoMessageId]

\* The Message processAutoMessage builds from the payload of queue message m and
\* the conversation it found.  from is not a field of the document: it records the
\* scheduling record the message was made from.
ConsumerMessage(m) ==
    [sender |-> m.senderId, receiver |-> m.receiverId,
     conversation |-> m.conv, content |-> m.content,
     messageType |-> "auto", from |-> m.autoMessageId]

\* new Message({...messageType: 'auto'}).save() resolved.
HSaveMessage(k) ==
    /\ storeUp
    /\ k \in DOMAIN queue
    /\ queue[k].pc = "saveMessage"
    /\ messages' = Append(messages, ConsumerMessage(queue[k]))
    /\ queue' = [queue EXCEPT ![k].pc = "updateActivity", ![k].msg = Len(messages) + 1]
    /\ UNCHANGED <<now, autoMessages, conversations, scanners, faultVars, historyVars>>
    /\ UNCHANGED notPipelineVars

HSaveMessageFails(k) ==
    /\ k \in DOMAIN queue
    /\ queue[k].pc = "saveMessage"
    /\ StoreCallFails
    /\ queue' = HandlerThrows(k, "delivery")
    /\ UNCHANGED <<now, storeVars, scanners, historyVars>>
    /\ UNCHANGED notPipelineVars

\* conversation.updateLastActivity(message._id) resolved.
HUpdateLastActivity(k) ==
    /\ storeUp
    /\ k \in DOMAIN queue
    /\ queue[k].pc = "updateActivity"
    /\ conversations' = [conversations EXCEPT ![queue[k].conv].lastMessage = queue[k].msg]
    /\ queue' = [queue EXCEPT ![k].pc = "notify"]
    /\ UNCHANGED <<now, autoMessages, messages, scanners, faultVars, historyVars>>
    /\ UNCHANGED notPipelineVars

HUpdateLastActivityFails(k) ==
    /\ k \in DOMAIN queue
    /\ queue[k].pc = "updateActivity"
    /\ StoreCallFails
    /\ queue' = HandlerThrows(k, "delivery")
    /\ UNCHANGED <<now, storeVars, scanners, historyVars>>
    /\ UNCHANGED notPipelineVars

\* message.populate resolved, then emitToUser(receiverId, 'message_received', ...).
HNotify(k) ==
    /\ storeUp
    /\ k \in DOMAIN queue
    /\ queue[k].pc = "notify"
    /\ notified' = [notified EXCEPT ![queue[k].autoMessageId] = Min(@ + 1, MaxQueue * MaxDeliveries)]
    /\ queue' = [queue EXCEPT ![k].pc = "markSent"]
    /\ UNCHANGED <<now, storeVars, scanners, faultVars, promotions, failStreak>>
    /\ UNCHANGED notPipelineVars

\* message.populate rejected: nothing is emitted.
HNotifyFails(k) ==
    /\ k \in DOMAIN queue
    /\ queue[k].pc = "notify"
    /\ StoreCallFails
    /\ queue' = HandlerThrows(k, "delivery")
    /\ UNCHANGED <<now, storeVars, scanners, historyVars>>
    /\ UNCHANGED notPipelineVars

\* A markAsSent that forgets the id of the message it was given.
MarkAsSentNoMessageId(d, messageId, t) ==
    [d EXCEPT !.isSent = TRUE, !.sentAt = t]

\* A markAsSent that stores the id of the message and leaves isSent as it is.
MarkAsSentKeepsPending(d, messageId, t) ==
    [d EXCEPT !.sentAt = t, !.messageId = messageId]

\* markAsSent: isSent = true, sentAt = new Date(), messageId set; unconditional.
markAsSent(d, messageId, t) ==
    [d EXCEPT !.isSent = TRUE, !.sentAt = t, !.messageId = messageId]

\* AutoMessage.findById and markAsSent resolved: the handler returns and
\* consumeFromQueue acks the message.
HMarkSent(k) ==
    /\ storeUp
    /\ k \in DOMAIN queue
    /\ queue[k].pc = "markSent"
    /\ LET r == queue[k].autoMessageId IN
         /\ autoMessages' = [autoMessages EXCEPT ![r] = markAsSent(@, queue[k].msg, now)]
         /\ failStreak' = [failStreak EXCEPT ![r] = 0]
    /\ queue' = Settle(k, TRUE)
    /\ UNCHANGED <<now, messages, conversations, scanners, faultVars, promotions, notified>>
    /\ UNCHANGED notPipelineVars

\* findById or markAsSent's save() rejected.
HMarkSentFails(k) ==
    /\ k \in DOMAIN queue
    /\ queue[k].pc = "markSent"
    /\ StoreCallFails
    /\ queue' = HandlerThrows(k, "delivery")
    /\ UNCHANGED <<now, storeVars, scanners, historyVars>>
    /\ UNCHANGED notPipelineVars

\* The catch of processAutoMessage, AutoMessage.findById: the handler holds a copy
\* of the record as it is now.
HCatchFind(k) ==
    /\ storeUp
    /\ k \in DOMAIN queue
    /\ queue[k].pc = "catchFind"
    /\ queue' = [queue EXCEPT ![k].pc = "catchIncr",
                              ![k].retryRead = autoMessages[queue[k].autoMessageId].retryCount]
    /\ UNCHANGED <<now, storeVars, scanners, faultVars, historyVars>>
    /\ UNCHANGED notPipelineVars

\* An incrementRetry that counts the failure and does not store its message.
IncrementRetryDropsError(d, copyRetryCount, err) ==
    [d EXCEPT !.retryCount = copyRetryCount + 1]

\* The stored retryCount after incrementRetry's save: the copy's count plus one.
incrementRetry(d, copyRetryCount, err) ==
    [d EXCEPT !.retryCount = copyRetryCount + 1, !.error = err]

\* incrementRetry resolved; the error is re-thrown and consumeFromQueue nacks the
\* message with requeue.
HCatchIncrementRetry(k) ==
    /\ storeUp
    /\ k \in DOMAIN queue
    /\ queue[k].pc = "catchIncr"
    /\ LET r == queue[k].autoMessageId IN
         /\ autoMessages' = [autoMessages EXCEPT
                                ![r] = incrementRetry(@, queue[k].retryRead, queue[k].err)]
         /\ failStreak' = [failStreak EXCEPT ![r] = Min(@ + 1, MaxRetries)]
    /\ queue' = Settle(k, FALSE)
    /\ UNCHANGED <<now, messages, conversations, scanners, faultVars, promotions, notified>>
    /\ UNCHANGED notPipelineVars

\* findById or incrementRetry rejected inside the catch: the inner catch swallows
\* it, the first error is re-thrown and the message is nacked with requeue.
HCatchFails(k) ==
    /\ k \in DOMAIN queue
    /\ queue[k].pc \in {"catchFind", "catchIncr"}
    /\ StoreCallFails
    /\ failStreak' = [failStreak EXCEPT ![queue[k].autoMessageId] = Min(@ + 1, MaxRetries)]
    /\ queue' = Settle(k, FALSE)
    /\ UNCHANGED <<now, storeVars, scanners, promotions, notified>>
    /\ UNCHANGED notPipelineVars

--------------------------------------------------------------------------
(* The pipeline *)

\* The steps of the run of queueReadyMessages in slot s.
ScannerStep(s) ==
    \/ StartScan(s)
    \/ StartScanFails(s)
    \/ ScanPublish(s)
    \/ ScanPublishFails(s)
    \/ ScanMark(s)
    \/ ScanMarkFails(s)
    \/ ScanIncrementRetry(s)
    \/ ScanIncrementRetryFails(s)

ScannerNext == \E s \in 1..MaxScanners : ScannerStep(s)

\* The steps of the delivery of queue message k: the hand-over and the handler.
ConsumerStep(k) ==
    \/ Deliver(k)
    \/ HFindConversation(k)
    \/ HFindConversationFails(k)
    \/ HCreateConversation(k)
    \/ HCreateConversationFails(k)
    \/ HSaveMessage(k)
    \/ HSaveMessageFails(k)
    \/ HUpdateLastActivity(k)
    \/ HUpdateLastActivityFails(k)
    \/ HNotify(k)
    \/ HNotifyFails(k)
    \/ HMarkSent(k)
    \/ HMarkSentFails(k)
    \/ HCatchFind(k)
    \/ HCatchIncrementRetry(k)
    \/ HCatchFails(k)

ConsumerNext == \E k \in 1..MaxQueue : ConsumerStep(k)

BrokerNext == \E k \in 1..MaxQueue : TTLElapses(k) \/ DropExpired(k)

Next ==
    \/ Tick
    \/ ScannerNext
    \/ BrokerNext
    \/ ConsumerNext

Spec == Init /\ [][Next]_vars

\* The pipeline with every record due, in a window shorter than the queue's TTL,
\* with as many transient failures as a record has retries.
InitRetry == PipelineInit(MaxTime, MaxRetries)

NextRetry == ScannerNext \/ ConsumerNext

SpecRetry == InitRetry /\ [][NextRetry]_vars

\* The same pipeline when a run of the scanner ends before the cron starts the
\* next one, the cron keeps running it, the broker keeps delivering and every handler
\* run keeps taking its steps.  The failures are finitely many: the budget of
\* InitRetry.
NextLive == ScannerStep(1) \/ ConsumerNext

SpecLive ==
    /\ InitRetry
    /\ [][NextLive]_vars
    /\ WF_vars(ScannerStep(1))
    /\ \A k \in 1..MaxQueue : WF_vars(ConsumerStep(k))

\* The pipeline after one scan has published and promoted every record, with
\* a store that may stop answering for good.  The broker keeps delivering, the handler
\* runs keep taking their steps, and the TTL of a message in the queue runs out in
\* the end.
InitOutage ==
    /\ PlannerDone
    /\ now = MaxTime
    /\ \E pairs \in [RecordIds -> {<<1, 2>>, <<2, 1>>, <<3, 1>>}] :
         /\ \A r \in RecordIds : pairs[r] \in InitPairs(r)
         /\ autoMessages = [r \in RecordIds |->
                               [NewAutoMessage(pairs[r][1], pairs[r][2], r, MaxTime, 1)
                                   EXCEPT !.isQueued = TRUE, !.queuedAt = MaxTime]]
    /\ scanners = [s \in 1..MaxScanners |-> IdleScanner]
    /\ queue = [r \in RecordIds |-> QueueMessage(r)]
    /\ messages = << >>
    /\ conversations = << >>
    /\ storeUp = TRUE
    /\ faults = MaxFaults
    /\ promotions = [r \in RecordIds |-> 1]
    /\ failStreak = [r \in RecordIds |-> 0]
    /\ notified = [r \in RecordIds |-> 0]
    /\ requests = << >>
    /\ lastSweep = NoDate
    /\ NoSockets

NextOutage ==
    \/ StoreGoesDown
    \/ BrokerNext
    \/ ConsumerNext

SpecOutage ==
    /\ InitOutage
    /\ [][NextOutage]_vars
    /\ \A k \in 1..MaxQueue :
         /\ WF_vars(ConsumerStep(k))
         /\ WF_vars(TTLElapses(k))
         /\ WF_vars(DropExpired(k))

\* One scanner with several records due at once: a run has more than one record
\* to go through, with as many transient failures as a record has retries.
InitBatch ==
    /\ PlannerDone
    /\ now = MaxTime
    /\ autoMessages = [r \in 1..BatchRecords |->
                          NewAutoMessage(1 + (r % 2), 1 + ((r + 1) % 2), r, MaxTime, 1)]
    /\ scanners = [s \in 1..MaxScanners |-> IdleScanner]
    /\ queue = << >>
    /\ messages = << >>
    /\ conversations = << >>
    /\ storeUp = TRUE
    /\ faults = MaxRetries
    /\ promotions = [r \in 1..BatchRecords |-> 0]
    /\ failStreak = [r \in 1..BatchRecords |-> 0]
    /\ notified = [r \in 1..BatchRecords |-> 0]
    /\ requests = << >>
    /\ lastSweep = NoDate
    /\ NoSockets

NextBatch == ScannerStep(1)

SpecBatch == InitBatch /\ [][NextBatch]_vars

\* A message another publisher put into message_sending_queue, with a body that
\* is not JSON: it names no record and no user.
UnparsableMessage ==
    [autoMessageId |-> NoId, senderId |-> NoId, receiverId |-> NoId, content |-> NoId,
     parses |-> FALSE,
     status |-> "ready", ttlLeft |-> QueueTTL, deliveries |-> 0,
     pc |-> "none", conv |-> NoId, msg |-> NoId, retryRead |-> 0, err |-> "",
     outcome |-> "none", sentOnArrival |-> FALSE]

\* The pipeline after one scan has published and promoted every record, with an
\* unparsable message behind them in the queue and one more transient failure to
\* come than a record has retries.
InitRedelivery ==
    /\ PlannerDone
    /\ now = MaxTime
    /\ \E pairs \in [RecordIds -> {<<1, 2>>, <<2, 1>>, <<3, 1>>}] :
         /\ \A r \in RecordIds : pairs[r] \in InitPairs(r)
         /\ autoMessages = [r \in RecordIds |->
                               [NewAutoMessage(pairs[r][1], pairs[r][2], r, MaxTime, 1)
                                   EXCEPT !.isQueued = TRUE, !.queuedAt = MaxTime]]
    /\ scanners = [s \in 1..MaxScanners |-> IdleScanner]
    /\ queue = [r \in RecordIds |-> QueueMessage(r)] \o <<UnparsableMessage>>
    /\ messages = << >>
    /\ conversations = << >>
    /\ storeUp = TRUE
    /\ faults = MaxRetries + 1
    /\ promotions = [r \in RecordIds |-> 1]
    /\ failStreak = [r \in RecordIds |-> 0]
    /\ notified = [r \in RecordIds |-> 0]
    /\ requests = << >>
    /\ lastSweep = NoDate
    /\ NoSockets

NextRedelivery ==
    \/ BrokerNext
    \/ ConsumerNext
    \/ \E k \in DOMAIN queue : DeliverUnparsable(k)

\* The broker keeps delivering, the handler runs keep taking their steps, and the
\* TTL of a message in the queue runs out in the end.
SpecRedelivery ==
    /\ InitRedelivery
    /\ [][NextRedelivery]_vars
    /\ \A k \in 1..MaxQueue :
         /\ WF_vars(ConsumerStep(k))
         /\ WF_vars(DeliverUnparsable(k))
         /\ WF_vars(TTLElapses(k))
         /\ WF_vars(DropExpired(k))

--------------------------------------------------------------------------
(* POST /api/messages/send *)

\* The users that send requests, to each other or to themselves.
SendUsers == 1..2

\* A request as the route handler starts on it.  created is not program state: it
\* records whether the request's findOrCreateConversation created a conversation.
NewRequest(sender, receiver) ==
    [sender |-> sender, receiver |-> receiver, pc |-> "findUser",
     conv |-> NoId, created |-> FALSE, msg |-> NoId, status |-> 0]

\* The response is sent: the handler is over.
Respond(q, status) == [requests EXCEPT ![q].pc = "done", ![q].status = status]

\* An authenticated, validated request reaches the route handler.
SendArrives(sender, receiver) ==
    /\ Len(requests) < MaxRequests
    /\ requests' = Append(requests, NewRequest(sender, receiver))
    /\ UNCHANGED <<pipelineVars, plannerVars, sweepVars, presenceVars>>

\* A client that sends its next request when every response has come back.
SendInTurn ==
    /\ \A q \in DOMAIN requests : requests[q].pc = "done"
    /\ \E sender \in SendUsers, receiver \in SendUsers : SendArrives(sender, receiver)

\* A route without the comparison of the sender with the receiver.
SendFindUserNoSelfCheck(q) ==
    /\ storeUp
    /\ q \in DOMAIN requests
    /\ requests[q].pc = "findUser"
    /\ \E found \in BOOLEAN :
         requests' = IF ~found THEN Respond(q, 404)
                     ELSE [requests EXCEPT ![q].pc = "findConv"]
    /\ UNCHANGED <<pipelineVars, plannerVars, sweepVars, presenceVars>>

\* User.findOne({_id: receiverId, isActive: true}) resolved: 404 when there is no
\* such user, 400 when the receiver is the sender, else findOrCreateConversation.
SendFindUser(q) ==
    /\ storeUp
    /\ q \in DOMAIN requests
    /\ requests[q].pc = "findUser"
    /\ \E found \in BOOLEAN :
         requests' = IF ~found THEN Respond(q, 404)
                     ELSE IF requests[q].sender = requests[q].receiver THEN Respond(q, 400)
                     ELSE [requests EXCEPT ![q].pc = "findConv"]
    /\ UNCHANGED <<pipelineVars, plannerVars, sweepVars, presenceVars>>

\* findOrCreateConversation, the findOne.
SendFindConversation(q) ==
    /\ storeUp
    /\ q \in DOMAIN requests
    /\ requests[q].pc = "findConv"
    /\ LET c == FindConversation(requests[q].sender, requests[q].receiver) IN
         requests' = IF c = NoId
                     THEN [requests EXCEPT ![q].pc = "createConv"]
                     ELSE [requests EXCEPT ![q].pc = "saveMessage", ![q].conv = c]
    /\ UNCHANGED <<pipelineVars, plannerVars, sweepVars, presenceVars>>

\* findOrCreateConversation, the create and the findById that re-reads it.
SendCreateConversation(q) ==
    /\ storeUp
    /\ q \in DOMAIN requests
    /\ requests[q].pc = "createConv"
    /\ conversations' = Append(conversations,
          [participants |-> <<requests[q].sender, requests[q].receiver>>,
           lastMessage |-> NoId])
    /\ requests' = [requests EXCEPT ![q].pc = "saveMessage",
                                    ![q].conv = Len(conversations) + 1,
                                    ![q].created = TRUE]
    /\ UNCHANGED <<now, autoMessages, messages, scanners, queue, faultVars, historyVars>>
    /\ UNCHANGED <<plannerVars, sweepVars, presenceVars>>

\* The Message the route builds for request rq: the content of the body, no
\* scheduling record behind it.
RouteMessage(rq) ==
    [sender |-> rq.sender, receiver |-> rq.receiver,
     conversation |-> rq.conv, content |-> "text of the user",
     messageType |-> "text", from |-> NoId]

\* new Message({...messageType: 'text'}).save() resolved.
SendSaveMessage(q) ==
    /\ storeUp
    /\ q \in DOMAIN requests
    /\ requests[q].pc = "saveMessage"
    /\ messages' = Append(messages, RouteMessage(requests[q]))
    /\ requests' = [requests EXCEPT ![q].pc = "updateActivity", ![q].msg = Len(messages) + 1]
    /\ UNCHANGED <<now, autoMessages, conversations, scanners, queue, faultVars, historyVars>>
    /\ UNCHANGED <<plannerVars, sweepVars, presenceVars>>

\* conversation.updateLastActivity(message._id) resolved.
SendUpdateLastActivity(q) ==
    /\ storeUp
    /\ q \in DOMAIN requests
    /\ requests[q].pc = "updateActivity"
    /\ conversations' = [conversations EXCEPT
                            ![requests[q].conv].lastMessage = requests[q].msg]
    /\ requests' = [requests EXCEPT ![q].pc = "populate"]
    /\ UNCHANGED <<now, autoMessages, messages, scanners, queue, faultVars, historyVars>>
    /\ UNCHANGED <<plannerVars, sweepVars, presenceVars>>

\* message.populate resolved: the events are emitted and the response is 201.
SendRespond(q) ==
    /\ storeUp
    /\ q \in DOMAIN requests
    /\ requests[q].pc = "populate"
    /\ requests' = Respond(q, 201)
    /\ UNCHANGED <<pipelineVars, plannerVars, sweepVars, presenceVars>>

\* An awaited call of the handler rejected: the catch responds 500.  What the
\* earlier steps stored stays.
SendFails(q) ==
    /\ q \in DOMAIN requests
    /\ requests[q].pc # "done"
    /\ StoreCallFails
    /\ requests' = Respond(q, 500)
    /\ UNCHANGED <<now, storeVars, scanners, queue, historyVars>>
    /\ UNCHANGED <<plannerVars, sweepVars, presenceVars>>

\* The steps of the route handler on request q.
SendStep(q) ==
    \/ SendFindUser(q)
    \/ SendFindConversation(q)
    \/ SendCreateConversation(q)
    \/ SendSaveMessage(q)
    \/ SendUpdateLastActivity(q)
    \/ SendRespond(q)
    \/ SendFails(q)

\* The conversations a store may hold before the first request: some pairs, in
\* either order of participants, a pair possibly twice.
ConversationDraws ==
    {[participants |-> p, lastMessage |-> NoId] : p \in {<<1, 2>>, <<2, 1>>, <<1, 3>>}}

\* Requests served one after the other, on any store of conversations.
InitSend ==
    /\ PlannerDone
    /\ now = 1
    /\ autoMessages = << >>
    /\ scanners = [s \in 1..MaxScanners |-> IdleScanner]
    /\ queue = << >>
    /\ messages = << >>
    /\ conversations \in UNION {[1..n -> ConversationDraws] : n \in 0..MaxConversations}
    /\ storeUp = TRUE
    /\ faults = MaxFaults
    /\ promotions = << >>
    /\ failStreak = << >>
    /\ notified = << >>
    /\ requests = << >>
    /\ lastSweep = NoDate
    /\ NoSockets

NextSend ==
    \/ SendInTurn
    \/ \E q \in 1..MaxRequests : SendStep(q)

SpecSend == InitSend /\ [][NextSend]_vars

\* Requests that arrive while others are being served and while the consumer
\* delivers the published record: the route handlers and the handler runs of the
\* consumer interleave at every await.
NextTalk ==
    \/ \E sender \in SendUsers, receiver \in SendUsers : SendArrives(sender, receiver)
    \/ \E q \in 1..MaxRequests : SendStep(q)
    \/ ConsumerNext

SpecTalk == InitOutage /\ [][NextTalk]_vars

--------------------------------------------------------------------------
(* Retention sweep: cleanupOldMessages.  The clock counts hours here. *)

HoursPerDay == 24

\* The retention window, in hours.
RetentionWindow == RetentionDays * HoursPerDay

\* Hours between the creation of a record and its delivery that the model
\* enumerates: the earliest (send date 1 hour after creation), and a send date
\* 24 hours 59 minutes after creation picked up by the next scan.
SentAfterDraws == {1, 25}

\* A sweep that deletes by age alone, whatever the state of the record.
SweepMatchesAnyState(d, t) == d.createdAt < t - RetentionWindow

\* The filter of deleteMany at time t: createdAt before thirtyDaysAgo, and isSent.
SweepMatches(d, t) ==
    /\ d.createdAt < t - RetentionWindow
    /\ d.isSent = TRUE

\* The states a record created by the planner at PlannerHour can be in a day later:
\* Pending, Queued, retry-exhausted, or Sent after one of the delays.
SweepRecordStates(r, sender, receiver) ==
    LET base == NewAutoMessage(sender, receiver, r, PlannerHour + 1, PlannerHour)
        queued == [base EXCEPT !.isQueued = TRUE, !.queuedAt = PlannerHour + 1]
    IN  {base, queued,
         [base EXCEPT !.retryCount = MaxRetries, !.error = "queue"],
         [queued EXCEPT !.retryCount = MaxRetries, !.error = "delivery"]}
        \cup { [base EXCEPT !.sendDate = PlannerHour + a,
                            !.isQueued = TRUE, !.queuedAt = PlannerHour + a,
                            !.isSent = TRUE, !.sentAt = PlannerHour + a] :
                   a \in SentAfterDraws }

\* The Sent records of a store, and the position of a Sent record among them: the
\* id of the Message made from it.
SentIds(recs) == {r \in DOMAIN recs : recs[r].isSent}

MessageIdOf(recs, r) == Cardinality({x \in SentIds(recs) : x <= r})

\* A store a day after the planner ran, with the Message and the Conversation of
\* every Sent record.
InitSweep ==
    /\ PlannerDone
    /\ now = PlannerHour + 25
    /\ \E pairs \in [RecordIds -> {<<1, 2>>, <<2, 1>>, <<3, 1>>}] :
         \E recs \in [RecordIds ->
                         UNION {UNION {SweepRecordStates(r, p[1], p[2]) : p \in InitPairs(r)} :
                                   r \in RecordIds}] :
            /\ \A r \in RecordIds : pairs[r] \in InitPairs(r)
            /\ \A r \in RecordIds :
                  recs[r] \in SweepRecordStates(r, pairs[r][1], pairs[r][2])
            /\ autoMessages = [r \in RecordIds |->
                  IF recs[r].isSent
                  THEN [recs[r] EXCEPT !.messageId = MessageIdOf(recs, r)]
                  ELSE recs[r]]
            /\ messages = [i \in 1..Cardinality(SentIds(recs)) |->
                  LET r == SetToSeq(SentIds(recs))[i] IN
                     [sender |-> recs[r].sender, receiver |-> recs[r].receiver,
                      conversation |-> i, content |-> recs[r].content,
                      messageType |-> "auto", from |-> r]]
            /\ conversations = [i \in 1..Cardinality(SentIds(recs)) |->
                  LET r == SetToSeq(SentIds(recs))[i] IN
                     [participants |-> <<recs[r].sender, recs[r].receiver>>,
                      lastMessage |-> i]]
    /\ scanners = [s \in 1..MaxScanners |-> IdleScanner]
    /\ queue = << >>
    /\ storeUp = TRUE
    /\ faults = 0
    /\ promotions = [r \in RecordIds |-> 0]
    /\ failStreak = [r \in RecordIds |-> 0]
    /\ notified = [r \in RecordIds |-> 0]
    /\ requests = << >>
    /\ lastSweep = NoDate
    /\ NoSockets

\* An hour passes.
HourPasses ==
    /\ now < MaxAgeDays * HoursPerDay
    /\ now' = now + 1
    /\ UNCHANGED <<storeVars, scanners, queue, faultVars, historyVars>>
    /\ UNCHANGED <<plannerVars, routeVars, sweepVars, presenceVars>>

\* cleanupOldMessages, run by the cron at SweepHour every day: deleteMany removes
\* every document its filter matches.
cleanupOldMessages ==
    /\ now % HoursPerDay = SweepHour
    /\ lastSweep # now
    /\ autoMessages' = [r \in {x \in DOMAIN autoMessages :
                                   ~SweepMatches(autoMessages[x], now)} |->
                            autoMessages[r]]
    /\ lastSweep' = now
    /\ UNCHANGED <<now, messages, conversations, scanners, queue, faultVars, historyVars>>
    /\ UNCHANGED <<plannerVars, routeVars, presenceVars>>

NextSweep == HourPasses \/ cleanupOldMessages

SpecSweep == InitSweep /\ [][NextSweep]_vars

--------------------------------------------------------------------------
(* Presence: the socket connection handler and the redis set online_users *)

\* The users that open sockets.
PresenceUsers == 1..2

\* A socket that passed authenticateSocket, as the connection handler starts on
\* it: the handler awaits addOnlineUser and has registered no listener yet.
\* missed is not program state: it records that the socket closed before its
\* disconnect listener was registered.
NewSocket(u) == [user |-> u, connected |-> TRUE, pc |-> "add", missed |-> FALSE]

\* io.on('connection'): a client of user u connects.
SocketConnects(u) ==
    /\ Len(sockets) < MaxSockets
    /\ sockets' = Append(sockets, NewSocket(u))
    /\ UNCHANGED onlineUsers
    /\ UNCHANGED <<plannerVars, pipelineVars, routeVars, sweepVars>>

\* The rest of the connection handler once addOnlineUser has returned: the socket
\* joins its room and the listeners, the one of 'disconnect' among them, are
\* registered.  A socket that closed in the meantime has emitted 'disconnect' to
\* no listener.
AfterAdd(sk) ==
    IF sk.connected
    THEN [sk EXCEPT !.pc = "listening"]
    ELSE [sk EXCEPT !.pc = "closed", !.missed = TRUE]

\* removeOnlineUser(userId) for socket i: sRem('online_users', userId).
SRem(set, i) == set \ {sockets[i].user}

\* addOnlineUser(userId) resolved: sAdd('online_users', userId).
AddOnlineUser(i) ==
    /\ i \in DOMAIN sockets
    /\ sockets[i].pc = "add"
    /\ onlineUsers' = onlineUsers \cup {sockets[i].user}
    /\ sockets' = [sockets EXCEPT ![i] = AfterAdd(@)]
    /\ UNCHANGED <<plannerVars, pipelineVars, routeVars, sweepVars>>

\* sAdd rejected: addOnlineUser logs the error and returns, the handler goes on.
AddOnlineUserFails(i) ==
    /\ i \in DOMAIN sockets
    /\ sockets[i].pc = "add"
    /\ faults > 0
    /\ faults' = faults - 1
    /\ sockets' = [sockets EXCEPT ![i] = AfterAdd(@)]
    /\ UNCHANGED onlineUsers
    /\ UNCHANGED <<plannerVars, now, storeVars, scanners, queue, storeUp, historyVars,
                   routeVars, sweepVars>>

\* The client of socket i goes away: 'disconnect' is emitted.  The listener, when
\* it is registered, starts and awaits removeOnlineUser.
SocketDisconnects(i) ==
    /\ i \in DOMAIN sockets
    /\ sockets[i].connected
    /\ sockets' = [sockets EXCEPT ![i].connected = FALSE,
                                  ![i].pc = IF @ = "listening" THEN "remove" ELSE @]
    /\ UNCHANGED onlineUsers
    /\ UNCHANGED <<plannerVars, pipelineVars, routeVars, sweepVars>>

\* removeOnlineUser(userId) resolved, user_offline is broadcast.
RemoveOnlineUser(i) ==
    /\ i \in DOMAIN sockets
    /\ sockets[i].pc = "remove"
    /\ onlineUsers' = SRem(onlineUsers, i)
    /\ sockets' = [sockets EXCEPT ![i].pc = "closed"]
    /\ UNCHANGED <<plannerVars, pipelineVars, routeVars, sweepVars>>

\* sRem rejected: removeOnlineUser logs the error and returns.
RemoveOnlineUserFails(i) ==
    /\ i \in DOMAIN sockets
    /\ sockets[i].pc = "remove"
    /\ faults > 0
    /\ faults' = faults - 1
    /\ sockets' = [sockets EXCEPT ![i].pc = "closed"]
    /\ UNCHANGED onlineUsers
    /\ UNCHANGED <<plannerVars, now, storeVars, scanners, queue, storeUp, historyVars,
                   routeVars, sweepVars>>

\* No socket yet, redis empty, and a budget of failing redis calls.
InitPresence ==
    /\ PlannerDone
    /\ now = 1
    /\ autoMessages = << >>
    /\ scanners = [s \in 1..MaxScanners |-> IdleScanner]
    /\ queue = << >>
    /\ messages = << >>
    /\ conversations = << >>
    /\ storeUp = TRUE
    /\ faults = MaxFaults
    /\ promotions = << >>
    /\ failStreak = << >>
    /\ notified = << >>
    /\ requests = << >>
    /\ lastSweep = NoDate
    /\ NoSockets

NextPresence ==
    \/ \E u \in PresenceUsers : SocketConnects(u)
    \/ \E i \in 1..MaxSockets :
          \/ AddOnlineUser(i)
          \/ AddOnlineUserFails(i)
          \/ SocketDisconnects(i)
          \/ RemoveOnlineUser(i)
          \/ RemoveOnlineUserFails(i)

SpecPresence == InitPresence /\ [][NextPresence]_vars

--------------------------------------------------------------------------
(* Planner properties *)

\* How many times user u appears, as sender or receiver, in the inserted batch.
Appearances(u) ==
    Cardinality({k \in 1..Len(inserted) : inserted[k].sender = u})
  + Cardinality({k \in 1..Len(inserted) : inserted[k].receiver = u})

\* C9: for every active-user set of size N >= 2 and every permutation shuffleArray
\* produces, a run whose insertMany resolved has inserted exactly ceil(N/2) records,
\* each with sender different from receiver.
C9_PlannerCount ==
    plannerResult = "ok" =>
        /\ Len(activeUsers) >= 2
        /\ Len(inserted) = CeilHalf(Len(activeUsers))
        /\ \A k \in 1..Len(inserted) : inserted[k].sender # inserted[k].receiver

\* C9 witness: a completed run over an odd user set of at least 3 users.
C9_Witness ==
    /\ plannerPc = "done"
    /\ plannerResult = "ok"
    /\ Len(activeUsers) >= 3
    /\ Len(activeUsers) % 2 = 1
    /\ shuffledUsers # activeUsers

\* C10: in the batch of one run, if N is odd exactly one user appears in two pairs
\* and every other user in exactly one; if N is even every user appears in exactly one.
C10_PairMembership ==
    plannerResult = "ok" =>
        LET users == SeqToSet(activeUsers)
            twice == {u \in users : Appearances(u) = 2}
            once == {u \in users : Appearances(u) = 1}
        IN  IF Len(activeUsers) % 2 = 1
            THEN Cardinality(twice) = 1 /\ once = users \ twice
            ELSE once = users

\* C10 witness: a completed run over an odd user set in which the user that appears
\* twice is not the first user User.find returned.
C10_Witness ==
    /\ plannerResult = "ok"
    /\ Len(activeUsers) >= 3
    /\ Len(activeUsers) % 2 = 1
    /\ Appearances(activeUsers[1]) = 1
    /\ \E u \in SeqToSet(activeUsers) : Appearances(u) = 2

\* C11: every record the planner creates has a sendDate later than the time the
\* planner read the clock, by at least 1 hour and by less than 25 hours.
C11_SendDateWindow ==
    \A k \in 1..Len(inserted) :
        /\ inserted[k].sendOffset > 0
        /\ inserted[k].sendOffset >= 1 * 60
        /\ inserted[k].sendOffset < 25 * 60

\* A batch with the earliest and the latest send date the planner can draw.
C11_Witness ==
    /\ plannerResult = "ok"
    /\ \E k \in 1..Len(inserted) : inserted[k].sendOffset = 1 * 60
    /\ \E k \in 1..Len(inserted) : inserted[k].sendOffset = 24 * 60 + 59

\* The (sender, receiver) of the k-th inserted record.
PairOf(k) == <<inserted[k].sender, inserted[k].receiver>>

\* C15, as the code has it: with 3 active users a run creates exactly 2 records, the
\* second being the wrap-around pair from the third user of the shuffled list to
\* the first, who is the sender of the first pair; (U2,U1) comes with (U3,U2) and
\* never with (U3,U1).
C15_ThreeUsers ==
    (plannerResult = "ok" /\ Len(activeUsers) = 3)
        => /\ Len(inserted) = 2
           /\ inserted[2].receiver = inserted[1].sender
           /\ inserted[2].sender \notin {inserted[1].sender, inserted[1].receiver}
           /\ ~(PairOf(1) = <<2, 1>> /\ PairOf(2) = <<3, 1>>)

\* The run on 3 users whose permutation gives the pair (U2,U1).
C15_Witness ==
    /\ plannerResult = "ok"
    /\ Len(activeUsers) = 3
    /\ Len(inserted) = 2
    /\ PairOf(1) = <<2, 1>>
    /\ PairOf(2) = <<3, 2>>

\* C15 as stated: with 3 active users, the permutation that yields the pair (U2,U1)
\* yields the wrap-around pair (U3,U1), 2 records in all.
C15_ScenarioPairs ==
    (plannerResult = "ok" /\ Len(activeUsers) = 3 /\ PairOf(1) = <<2, 1>>)
        => /\ Len(inserted) = 2
           /\ PairOf(2) = <<3, 1>>

--------------------------------------------------------------------------
(* Pipeline properties *)

\* The queue messages that carry record r.
Published(r) == {k \in DOMAIN queue : queue[k].autoMessageId = r}

\* The Message documents made from record r.
MessagesOf(r) == {i \in DOMAIN messages : messages[i].from = r}

\* The users of the records in the store.
Users == UNION {{autoMessages[r].sender, autoMessages[r].receiver} : r \in RecordIds}

\* The conversations whose participants are exactly a and b.
ConversationsOf(a, b) ==
    {c \in DOMAIN conversations : SeqToSet(conversations[c].participants) = {a, b}}

\* C1: a due record that overlapping runs of queueReadyMessages see is promoted to
\* Queued at most once and published to the queue at most once.
C1_PromotedAndPublishedOnce ==
    \A r \in RecordIds :
        /\ promotions[r] <= 1
        /\ Cardinality(Published(r)) <= 1

\* C2: when the same payload has been delivered to processAutoMessage twice and
\* both runs returned, exactly one Message exists for the record and the record
\* is Sent.
C2_TwoSuccessfulRunsOneMessage ==
    \A r \in RecordIds :
        Cardinality({k \in Published(r) : queue[k].outcome = "returned"}) >= 2
            => /\ Cardinality(MessagesOf(r)) = 1
               /\ autoMessages[r].isSent

\* C3: in every reachable state there is at most one Message per scheduling record,
\* also after a handler run failed behind message.save() and the payload came again.
C3_AtMostOneMessagePerRecord ==
    \A r \in RecordIds : Cardinality(MessagesOf(r)) <= 1

\* C4: concurrent calls of findOrCreateConversation for one pair of users return the
\* same Conversation, and there is at most one Conversation per unordered pair.
C4_OneConversationPerPair ==
    /\ \A a \in Users : \A b \in Users : Cardinality(ConversationsOf(a, b)) <= 1
    /\ \A k \in DOMAIN queue : \A l \in DOMAIN queue :
          ( /\ {queue[k].senderId, queue[k].receiverId} = {queue[l].senderId, queue[l].receiverId}
            /\ queue[k].conv # NoId
            /\ queue[l].conv # NoId )
              => queue[k].conv = queue[l].conv

\* C5: a queue message is not redelivered forever: whatever the handler does, the
\* message is in the end acknowledged or dropped by the broker when its TTL is over.
C5_RedeliveryEnds ==
    \A k \in 1..MaxQueue :
        [](k \in DOMAIN queue
              => <>(k \in DOMAIN queue /\ queue[k].status \in {"acked", "expired"}))

\* A message whose handler failed on as many deliveries as the model counts, and which
\* the broker then dropped.
C5_Witness ==
    \E k \in DOMAIN queue :
        /\ queue[k].status = "expired"
        /\ queue[k].deliveries >= MaxDeliveries
        /\ failStreak[queue[k].autoMessageId] >= MaxRetries
        /\ ~autoMessages[queue[k].autoMessageId].isSent

\* C6: a record whose delivery failed MaxRetries times in a row is not selected by
\* getMessagesForQueuing any more.
C6_ExhaustedNeverSelected ==
    \A r \in RecordIds : failStreak[r] >= MaxRetries => r \notin ReadyIds

\* C7: a message is acknowledged only after its handler returned, which it does only
\* with the record marked Sent and a Message saved; a message whose handler threw is
\* back in the queue (until its TTL is over), never acknowledged.
C7_AckOnlyAfterSuccess ==
    \A k \in DOMAIN queue :
        /\ queue[k].status = "acked"
              => /\ queue[k].outcome = "returned"
                 /\ autoMessages[queue[k].autoMessageId].isSent
                 /\ MessagesOf(queue[k].autoMessageId) # {}
        /\ queue[k].outcome = "threw" => queue[k].status \in {"ready", "expired"}

\* A message that was nacked, delivered again and then acknowledged.
C7_Witness ==
    \E k \in DOMAIN queue :
        /\ queue[k].status = "acked"
        /\ queue[k].deliveries >= 2

\* C8: a due record that is scanned, published once and consumed with no failing step
\* ends Sent with exactly one Message of type 'auto', whose id is the record's
\* messageId, in a Conversation of exactly the two users of the record.
C8_EndToEnd ==
    \A r \in RecordIds :
        ( /\ faults = MaxFaults
          /\ Cardinality(Published(r)) = 1
          /\ \A k \in Published(r) : queue[k].status = "acked" )
            => LET d == autoMessages[r] IN
                 /\ d.isSent
                 /\ Cardinality(MessagesOf(r)) = 1
                 /\ d.messageId \in MessagesOf(r)
                 /\ messages[d.messageId].messageType = "auto"
                 /\ LET c == messages[d.messageId].conversation IN
                      /\ c \in DOMAIN conversations
                      /\ Len(conversations[c].participants) = 2
                      /\ SeqToSet(conversations[c].participants) = {d.sender, d.receiver}

\* A record that went through the three stages with no failure.
C8_Witness ==
    \E r \in RecordIds :
        /\ faults = MaxFaults
        /\ Cardinality(Published(r)) = 1
        /\ \A k \in Published(r) : queue[k].status = "acked" /\ queue[k].deliveries = 1
        /\ autoMessages[r].isQueued
        /\ autoMessages[r].isSent
        /\ notified[r] = 1

\* The queue messages whose handler run is in progress.
InProgress == {k \in DOMAIN queue : queue[k].status = "unacked"}

\* C16: consumeFromQueue hands messages to the handler one at a time: no two runs
\* of processAutoMessage are in progress at once.
C16_OneHandlerAtATime == Cardinality(InProgress) <= 1

\* C18: Sent is terminal: once a record has isSent = true, no step changes its
\* sentAt, its messageId or its retryCount.
C18_SentIsTerminal ==
    [][\A r \in RecordIds :
          autoMessages[r].isSent
              => /\ autoMessages'[r].sentAt = autoMessages[r].sentAt
                 /\ autoMessages'[r].messageId = autoMessages[r].messageId
                 /\ autoMessages'[r].retryCount = autoMessages[r].retryCount]_vars

\* C19: a record goes Pending -> Queued -> Sent: in every reachable state a record
\* with isSent = true has isQueued = true.
C19_SentImpliesQueued ==
    \A r \in RecordIds : autoMessages[r].isSent => autoMessages[r].isQueued

\* C20: queuedAt is set exactly once per record: once it is set, no scanner run
\* saves queuedAt on the record again.
C20_QueuedAtSetOnce ==
    [][\A r \in RecordIds :
          autoMessages[r].queuedAt # NoDate
              => /\ promotions'[r] = promotions[r]
                 /\ autoMessages'[r].queuedAt = autoMessages[r].queuedAt]_vars

--------------------------------------------------------------------------
(* Retention sweep properties *)

\* The age at time t of a timestamp.
Age(stamp, t) == t - stamp

\* C13: the sweep deletes a Sent record whose sent timestamp is 31 days old and
\* retains one whose sent timestamp is 29 days old: after a sweep no Sent record
\* that was sent 31 days or more before it is left, and no step deletes a Sent
\* record that was sent 29 days ago or less.
C13_DeletedIffSentLongAgo ==
    /\ [](\A r \in DOMAIN autoMessages :
             (lastSweep # NoDate /\ autoMessages[r].isSent)
                 => Age(autoMessages[r].sentAt, lastSweep) < (RetentionDays + 1) * HoursPerDay)
    /\ [][\A r \in DOMAIN autoMessages :
             (r \notin DOMAIN autoMessages' /\ autoMessages[r].isSent)
                 => Age(autoMessages[r].sentAt, now) > (RetentionDays - 1) * HoursPerDay]_vars

\* C14: no step deletes a record that is not Sent, whatever its age.
C14_OnlySentDeleted ==
    [][\A r \in DOMAIN autoMessages :
          ~autoMessages[r].isSent => r \in DOMAIN autoMessages']_vars

\* A record that is not Sent and older than the window at the last sweep, still
\* in the store.
C14_Witness ==
    \E r \in DOMAIN autoMessages :
        /\ ~autoMessages[r].isSent
        /\ lastSweep # NoDate
        /\ Age(autoMessages[r].createdAt, lastSweep) > RetentionWindow

--------------------------------------------------------------------------
(* Conversation properties *)

\* C12: findOrCreateConversation(A,B) and findOrCreateConversation(B,A), called one
\* after the other in either order on any store, return the same Conversation, and
\* the second call creates nothing.
C12_SymmetricFindOrCreate ==
    \A p \in DOMAIN requests : \A q \in DOMAIN requests :
        ( /\ p < q
          /\ {requests[p].sender, requests[p].receiver}
                = {requests[q].sender, requests[q].receiver}
          /\ requests[p].conv # NoId
          /\ requests[q].conv # NoId )
            => /\ requests[q].conv = requests[p].conv
               /\ ~requests[q].created

\* A call for (1, 2) that created the conversation, then a call for (2, 1) that
\* found it.
C12_Witness ==
    /\ Len(requests) >= 2
    /\ requests[1].sender = 1 /\ requests[1].receiver = 2
    /\ requests[2].sender = 2 /\ requests[2].receiver = 1
    /\ requests[1].created
    /\ requests[2].conv = requests[1].conv
    /\ requests[2].status = 201

--------------------------------------------------------------------------
(* Progress of the pipeline *)

--------------------------------------------------------------------------
(* Retry properties *)

\* C21: in every reachable state the retryCount of every record is between 0 and
\* MaxRetries: no sequence of failed publishes and failed deliveries drives it
\* above 3.
C21_RetryCountBounded ==
    \A r \in RecordIds :
        /\ autoMessages[r].retryCount >= 0
        /\ autoMessages[r].retryCount <= MaxRetries

\* C22: the scanner's only mutation of a record is the Pending -> Queued
\* transition: no step of a run of queueReadyMessages changes the retryCount or
\* the error field of a record.
C22_ScannerOnlyPromotes ==
    [][\A r \in RecordIds :
          scanners' # scanners
              => /\ autoMessages'[r].retryCount = autoMessages[r].retryCount
                 /\ autoMessages'[r].error = autoMessages[r].error]_vars

\* C28: when publishToQueue failed for a record, the run of the scanner goes on
\* without writing to the record: it stays Pending with the same retryCount.
C28_PublishFailureLeavesRecord ==
    [][\A s \in 1..MaxScanners :
          ( /\ scanners[s].pc = "incr"
            /\ ~scanners[s].dirty
            /\ scanners'[s] # scanners[s] )
              => LET r == Head(scanners[s].todo).id IN
                   autoMessages'[r] = autoMessages[r]]_vars

--------------------------------------------------------------------------
(* Consumer properties *)

\* C25: a failure of the notification step (populate, emitToUser) does not fail
\* the delivery: from the notification step the handler always goes on to
\* markAsSent, never to its catch.
C25_NotifyFailureIsHarmless ==
    [][\A k \in DOMAIN queue :
          queue[k].pc = "notify" => queue'[k].pc \in {"notify", "markSent"}]_vars

\* C26: a handler run that was handed a payload whose record was already Sent is
\* a no-op: it creates no Message.
C26_SentRecordIsNoOp ==
    \A k \in DOMAIN queue : queue[k].sentOnArrival => queue[k].msg = NoId

\* C23: in every reachable state a record's messageId is set only if the record
\* is Sent, and it is then the id of a stored Message made from that record: same
\* sender, receiver and content, messageType 'auto'.
C23_MessageIdReferencesMessage ==
    \A r \in RecordIds :
        LET d == autoMessages[r] IN
          d.messageId # NoId
              => /\ d.isSent
                 /\ d.messageId \in DOMAIN messages
                 /\ messages[d.messageId].from = r
                 /\ messages[d.messageId].sender = d.sender
                 /\ messages[d.messageId].receiver = d.receiver
                 /\ messages[d.messageId].content = d.content
                 /\ messages[d.messageId].messageType = "auto"

\* A record marked Sent by a second handler run, after a first run had saved a
\* Message and failed: its messageId is the id of the later Message.
C23_Witness ==
    \E r \in RecordIds :
        /\ autoMessages[r].isSent
        /\ autoMessages[r].retryCount >= 1
        /\ Cardinality(MessagesOf(r)) >= 2
        /\ autoMessages[r].messageId >= 2

\* The handler run of queue message k ends in this step by re-throwing.
RunThrows(k) ==
    /\ queue[k].pc \in {"catchFind", "catchIncr"}
    /\ queue'[k].pc = "none"

--------------------------------------------------------------------------
(* Scanner properties *)

\* C27: the scanner publishes a record only if, when the run selected it, its
\* sendDate had passed, it was Pending (isQueued = false, isSent = false) and its
\* retryCount was below 3: every record a run takes up satisfies this at the
\* selection, and a payload enters the queue only for the record a run is at.
C27_PublishedOnlyIfSelectedPending ==
    /\ [][\A s \in 1..MaxScanners :
             (scanners[s].pc = "idle" /\ scanners'[s].pc = "publish")
                 => \A i \in 1..Len(scanners'[s].todo) :
                       LET d == autoMessages[scanners'[s].todo[i].id] IN
                         /\ d.sendDate <= now
                         /\ d.isQueued = FALSE
                         /\ d.isSent = FALSE
                         /\ d.retryCount < MaxRetries]_vars
    /\ [][Len(queue') > Len(queue)
             => \E s \in 1..MaxScanners :
                   /\ scanners[s].pc = "publish"
                   /\ queue'[Len(queue')].autoMessageId = Head(scanners[s].todo).id]_vars

\* A record that was selected after a failed publish had been counted on it,
\* published once, and is Sent with no run of the scanner in progress.
C27_Witness ==
    \E r \in RecordIds :
        /\ Cardinality(Published(r)) = 1
        /\ autoMessages[r].retryCount = 1
        /\ autoMessages[r].error = "queue"
        /\ autoMessages[r].isQueued
        /\ autoMessages[r].isSent
        /\ \A s \in 1..MaxScanners : scanners[s].pc = "idle"

--------------------------------------------------------------------------
(* Queue properties *)

--------------------------------------------------------------------------
(* Propagation of failures *)

--------------------------------------------------------------------------
(* Conversations and messages *)

\* The messages stored with conversation c, by position in the collection.
MessagesIn(c) == {m \in 1..Len(messages) : messages[m].conversation = c}

\* No handler run of the consumer and no route handler is in progress.
Quiescent ==
    /\ InProgress = {}
    /\ \A q \in DOMAIN requests : requests[q].pc = "done"

\* C31: once every delivery into a conversation has completed, and no call has
\* failed, the conversation's lastMessage is the Message stored last in it.
C31_LastMessageIsLatest ==
    (Quiescent /\ storeUp /\ faults = MaxFaults)
        => \A c \in 1..Len(conversations) :
              MessagesIn(c) # {}
                 => /\ conversations[c].lastMessage \in MessagesIn(c)
                    /\ \A m \in MessagesIn(c) : m <= conversations[c].lastMessage

\* The requests a user addressed to itself.
SelfAddressed == {q \in DOMAIN requests : requests[q].sender = requests[q].receiver}

C33_AutoIffFromRecord ==
    /\ \A m \in 1..Len(messages) :
          /\ messages[m].messageType \in {"auto", "text"}
          /\ messages[m].messageType = "auto" <=> messages[m].from # NoId
    /\ \A k \in DOMAIN queue :
          queue[k].msg # NoId => messages[queue[k].msg].messageType = "auto"
    /\ \A q \in DOMAIN requests :
          requests[q].msg # NoId => messages[requests[q].msg].messageType = "text"

\* C33 witness: the consumer and the route have each stored a Message in the
\* same conversation.
C33_Witness ==
    \E a \in 1..Len(messages), t \in 1..Len(messages) :
        /\ messages[a].messageType = "auto"
        /\ messages[t].messageType = "text"
        /\ messages[a].conversation = messages[t].conversation

--------------------------------------------------------------------------
(* What the planner and the pipeline leave alone *)

\* Whether document d is in the state insertMany stores a new record in.
IsNewPending(d) ==
    /\ d.isQueued = FALSE /\ d.queuedAt = NoDate
    /\ d.isSent = FALSE /\ d.sentAt = NoDate
    /\ d.messageId = NoId /\ d.retryCount = 0 /\ d.error = ""

\* C34: a step of createAutoMessages only adds records in the initial Pending
\* state after the records of the collection, which stay as they are; it
\* publishes nothing and stores no Message; with fewer than 2 active users it adds
\* nothing.
C34_PlannerOnlyInserts ==
    [][/\ Len(autoMessages') >= Len(autoMessages)
       /\ SubSeq(autoMessages', 1, Len(autoMessages)) = autoMessages
       /\ \A r \in (Len(autoMessages) + 1)..Len(autoMessages') :
             /\ IsNewPending(autoMessages'[r])
             /\ autoMessages'[r].createdAt = now
       /\ Len(autoMessages') - Len(autoMessages) = Len(inserted') - Len(inserted)
       /\ queue' = queue
       /\ messages' = messages
       /\ Len(activeUsers) < 2 => autoMessages' = autoMessages]_vars

\* C34 witness: a run over at least 4 users has inserted its batch after a record
\* that was Queued before the run, and that record is still as it was.
C34_Witness ==
    /\ plannerResult = "ok"
    /\ Len(inserted) >= 2
    /\ Len(autoMessages) = Len(inserted) + 1
    /\ autoMessages[1].isQueued
    /\ \A r \in 2..Len(autoMessages) : IsNewPending(autoMessages[r])

\* The fields of document d the planner sets.
Creation(d) ==
    [sender |-> d.sender, receiver |-> d.receiver, content |-> d.content,
     sendDate |-> d.sendDate]

\* C35: no step of the scanner or of the consumer changes the sender, receiver,
\* content or sendDate of a record, and a Message made from a record has the
\* content of that record.
C35_CreationFieldsFrozen ==
    [][/\ DOMAIN autoMessages' = DOMAIN autoMessages
       /\ \A r \in DOMAIN autoMessages :
             Creation(autoMessages'[r]) = Creation(autoMessages[r])
       /\ \A m \in 1..Len(messages') :
             messages'[m].from # NoId
                => messages'[m].content = autoMessages'[messages'[m].from].content]_vars

\* C35 witness: a record that the scanner promoted and the consumer failed on,
\* counted a retry for and then marked Sent, with the Message made from it.
C35_Witness ==
    \E r \in DOMAIN autoMessages :
        /\ autoMessages[r].isQueued /\ autoMessages[r].isSent
        /\ autoMessages[r].retryCount > 0
        /\ autoMessages[r].messageId \in 1..Len(messages)
        /\ messages[autoMessages[r].messageId].content = autoMessages[r].content

--------------------------------------------------------------------------
(* Records in flight *)

\* The queue messages of record r the broker still holds: waiting for a delivery
\* or handed to a handler run that has not settled.
InFlight(r) ==
    {k \in DOMAIN queue :
        /\ queue[k].autoMessageId = r
        /\ queue[k].status \in {"ready", "unacked"}}

\* No queue message has run out of its TTL.
NothingExpired ==
    \A k \in DOMAIN queue : ~Expired(queue[k]) /\ queue[k].status # "expired"

\* C36: as long as no queue message has expired, a record that is Queued and not
\* Sent has a message in the queue or with a handler run.
C36_NoRecordStranded ==
    NothingExpired
        => \A r \in DOMAIN autoMessages :
              (autoMessages[r].isQueued /\ ~autoMessages[r].isSent) => InFlight(r) # {}

\* C36 witness: a Queued record whose delivery failed and was counted is back in
\* the queue, waiting for the next delivery.
C36_Witness ==
    /\ NothingExpired
    /\ \E r \in DOMAIN autoMessages :
          /\ autoMessages[r].isQueued /\ ~autoMessages[r].isSent
          /\ autoMessages[r].retryCount > 0
          /\ \E k \in InFlight(r) :
                queue[k].status = "ready" /\ queue[k].outcome = "threw"

--------------------------------------------------------------------------
(* One run over several records *)

\* C37: a failure on one record of a run of queueReadyMessages leaves the other
\* records of the run to it: while the run has more than one record to go, a step
\* keeps the run on its record or moves it to the next one.
C37_RunGoesOnAfterFailure ==
    [][\A s \in 1..MaxScanners :
          (scanners[s].pc # "idle" /\ Len(scanners[s].todo) > 1)
             => /\ scanners'[s].pc # "idle"
                /\ scanners'[s].todo \in {scanners[s].todo, Tail(scanners[s].todo)}]_vars

--------------------------------------------------------------------------
(* Counting the failures *)

\* Whether this step is a save of incrementRetry on record r that the store
\* applied: of a scanner run in its inner catch, or of a handler run in its catch.
IncrementRetrySaved(r) ==
    /\ storeUp /\ faults' = faults
    /\ \/ \E s \in 1..MaxScanners :
             /\ scanners[s].pc = "incr"
             /\ Head(scanners[s].todo).id = r
             /\ scanners'[s] # scanners[s]
       \/ \E k \in DOMAIN queue :
             /\ queue[k].pc = "catchIncr"
             /\ queue[k].autoMessageId = r
             /\ queue'[k].pc = "none"

\* C38: no increment is lost: every save of incrementRetry the store applies
\* leaves the stored retryCount one above what it was.
C38_NoIncrementLost ==
    [][\A r \in DOMAIN autoMessages :
          IncrementRetrySaved(r)
             => autoMessages'[r].retryCount = autoMessages[r].retryCount + 1]_vars

--------------------------------------------------------------------------
(* Presence *)

\* The users with an open socket.
Connected == {sockets[i].user : i \in {j \in DOMAIN sockets : sockets[j].connected}}

\* Every connection and disconnect handler has finished, no redis call failed and
\* no socket closed before its listener was registered.
PresenceSettled ==
    /\ faults = MaxFaults
    /\ \A i \in DOMAIN sockets :
          sockets[i].pc \in {"listening", "closed"} /\ ~sockets[i].missed

\* C39: once the handlers have finished, a user is in online_users exactly when
\* it has an open socket, whatever the number of sockets it opened and closed.
C39_OnlineIffConnected ==
    PresenceSettled => onlineUsers = Connected

====
